---- MODULE Spec2Model ----
(***************************************************************************)
(* Eco-Approach-And-Departure: the three RTMaps components of the core.    *)
(*   GreenWindowEstimator.py  (SignalPhaseTracker)                         *)
(*   DMSI.py                  (ScenarioClassifier)                         *)
(*   DMTG.py                  (TrajectoryPlanner)                          *)
(*                                                                         *)
(* Units.  Times are integers in centiseconds (cs): the components round   *)
(* the input time to two decimals of a second, and a countdown tick is     *)
(* 0.1 s = 10 cs.  The averaged tick duration is a quotient sum/len, so    *)
(* values derived from it are exact rationals [n |-> , d |-> ] in cs.      *)
(* Python's None is the empty sequence <<>>, a present value v is <<v>>.   *)
(***************************************************************************)
EXTENDS Integers, Sequences, FiniteSets, TLC

VARIABLES
    \* ---- GreenWindowEstimator.py: self.* of the tracker
    has_tick,          \* hasattr(self, "last_cd_tick")
    last_cd_tick,      \* None or the last countdown value seen
    last_tick_time,    \* None or the time (cs) of the last countdown change
    tick_intervals,    \* the list of recorded intervals (cs)
    g_e_curr,          \* cached estimate: None or cs
    g_s_next,          \* cached estimate: None or cs
    g_e_next,          \* cached estimate: None or a rational in cs
    \* ---- GreenWindowEstimator.py: Core's locals and what Core wrote
    gwe_in,            \* the last cycle's ID inputs and Core's locals t0_in,
                       \* current_state_in, count_down_in (None when not read)
    path,              \* the branch the last Core took
    gwe_out,           \* the four output ports: what the last cycle wrote
    cycles,            \* number of Core invocations so far
    deviations,        \* off-nominal cycles used (long run only)
    \* ---- GreenWindowEstimator.py: one evaluation of state_name_to_number
    name_run,          \* the name given, the code returned, the estimate from it
    \* ---- DMSI.py: one evaluation of identify_scenario
    scen_run,          \* gamma and the thresholds given, the result returned
    \* ---- DMSI.py: the classifier component
    np_floats,         \* the float inputs arrive as numpy.float64 (else Python float)
    dmsi_in,           \* the inputs of the last Core (None before the first)
    dmsi_out,          \* what the last Core wrote, and the exception it raised
    dmsi_gamma,        \* None or the gamma_intervals the last Core built
    dmsi_ref,          \* an earlier invocation kept for comparison: its inputs, its
                       \* outputs, and whether other inputs were classified since
    \* ---- DMTG.py: one evaluation of the two arrival-time searches
    arr_run,           \* None, or what calculate_scen2_t_arr and _scen4_t_arr returned
    \* ---- DMTG.py: self.* of the planner
    precomputed_velocity_profile,  \* None or the list of samples <<time, speed>>
    profile_start_time,            \* None or ms
    profile_end_time,              \* None or ms
    last_scenario,                 \* None (Birth); assigned only in dead code
    \* ---- DMTG.py: Core's inputs, locals and what Core wrote
    dmtg_in,           \* the inputs of the last Core (None before the first)
    dmtg_run,          \* the last Core's locals: compute invoked, gamma, t_arr, idx
    dmtg_out           \* what the last Core wrote, and the exception it raised

gwe_vars == <<has_tick, last_cd_tick, last_tick_time, tick_intervals,
              g_e_curr, g_s_next, g_e_next, gwe_in, path, gwe_out>>

dmsi_vars == <<np_floats, dmsi_in, dmsi_out, dmsi_gamma, dmsi_ref>>

dmtg_vars == <<precomputed_velocity_profile, profile_start_time, profile_end_time,
               last_scenario, dmtg_in, dmtg_run, dmtg_out>>

vars == <<gwe_vars, cycles, deviations, name_run, scen_run, dmsi_vars, arr_run,
          dmtg_vars>>

----------------------------------------------------------------------------
\* Optional values and exact rationals

None == <<>>

Some(v) == <<v>>

Val(o) == o[1]

Abs(x) == IF x < 0 THEN -x ELSE x

RECURSIVE GCD(_, _)
GCD(a, b) == IF b = 0 THEN a ELSE GCD(b, a % b)

\* the rational n/d in lowest terms with a positive denominator
Rat(n, d) ==
    LET s == IF d < 0 THEN -1 ELSE 1
        g == GCD(Abs(n), Abs(d))
    IN  [n |-> (s * n) \div g, d |-> (s * d) \div g]

RatInt(i) == [n |-> i, d |-> 1]

RatAdd(x, y) == Rat(x.n * y.d + y.n * x.d, x.d * y.d)

RatMulInt(k, x) == Rat(k * x.n, x.d)

RatLess(x, y) == x.n * y.d < y.n * x.d

RECURSIVE SumSeq(_)
SumSeq(s) == IF s = <<>> THEN 0 ELSE Head(s) + SumSeq(Tail(s))

----------------------------------------------------------------------------
\* Bounds of the model

\* cycles of a run with freely chosen inputs
MaxCycles == 3

\* cycles of a long run, enough to overflow the tick history
LongRunCycles == 23

\* off-nominal cycles in a long run
MaxDeviations == 2

\* blanks before and after a phase name
MaxPad == 2

\* largest threshold and interval bound given to identify_scenario
MaxThreshold == 3

----------------------------------------------------------------------------
\* Program constants (GreenWindowEstimator.py)

\* len(self.tick_intervals) > 20
TickHistoryCap == 20

\* g_e_curr = -1.0 (seconds): "no current green", here in cs
Absent == -100

\* countdown_value * 0.1 seconds per tick, in cs
TickCs == 10

\* avg_tick_duration < 0.08, in cs
NoiseFloorCs == 8

\* avg_tick_duration = 0.1 (forced value and empty-history default), in cs
DefaultTickCs == 10

\* next_green_duration = 500 * avg_tick_duration
GreenTicks == 500

\* red_duration = 50 seconds, in cs
RedDurationCs == 5000

\* yellow_red_duration = 50 * 2 seconds, in cs
YellowRedDurationCs == 10000

RedStates == {2, 3}

YellowStates == {7, 8, 9}

GreenStates == {4, 5, 6}

----------------------------------------------------------------------------
\* GreenWindowEstimator.py: input conversions

\* A phase name is a sequence of tokens: " " is one whitespace character and
\* any other token is a run of non-blank text.
Blank == " "

RECURSIVE LStrip(_)
LStrip(s) == IF s # <<>> /\ Head(s) = Blank THEN LStrip(Tail(s)) ELSE s

RECURSIVE RStrip(_)
RStrip(s) ==
    IF s # <<>> /\ s[Len(s)] = Blank THEN RStrip(SubSeq(s, 1, Len(s) - 1)) ELSE s

\* str.strip()
Strip(s) == RStrip(LStrip(s))

\* the table of state_name_to_number
state_map ==
    [unavailable |-> 0, dark |-> 1] @@
    ("stop-Then-Proceed" :> 2) @@ ("stop-And-Remain" :> 3) @@
    ("pre-Movement" :> 4) @@ ("permissive-Movement-Allowed" :> 5) @@
    ("protected-Movement-Allowed" :> 6) @@ ("permissive-clearance" :> 7) @@
    ("protected-clearance" :> 8) @@ ("caution-Conflicting-Traffic" :> 9)

\* state_map.get(state_name.strip(), -1.0): a stripped name of several tokens
\* (inner whitespace) or of none (the empty string) is no key of the table
state_name_to_number_NoStrip(state_name) ==
    IF Len(state_name) = 1 /\ state_name[1] \in DOMAIN state_map
    THEN state_map[state_name[1]]
    ELSE -1

state_name_to_number_Default(state_name) ==
    LET key == Strip(state_name)
    IN  IF Len(key) = 1 /\ key[1] \in DOMAIN state_map
        THEN state_map[key[1]]
        ELSE 0

state_name_to_number(state_name) ==
    LET key == Strip(state_name)
    IN  IF Len(key) = 1 /\ key[1] \in DOMAIN state_map
        THEN state_map[key[1]]
        ELSE -1

\* round(float(t0 * 1e-6), 2): microseconds to cs, to the nearest
RoundToCs(t0_us) == (t0_us + 5000) \div 10000

\* int(countdown): the countdown arrives as a float, here in thousandths of a
\* tick, and is truncated toward zero
IntOfCountdown(countdown) ==
    IF countdown >= 0 THEN countdown \div 1000 ELSE -((-countdown) \div 1000)

----------------------------------------------------------------------------
\* GreenWindowEstimator.py: the estimate

\* the three values as the function returns them: (g_s_next, g_e_next, g_e_curr)
Estimate(s, e, c) == [g_s_next |-> s, g_e_next |-> e, g_e_curr |-> c]

NoEstimate == Estimate(None, None, None)

estimate_green_window_from_countdown_SwapClearance(current_state, countdown_value, next_green_duration) ==
    LET time_until_phase_change == countdown_value * TickCs
    IN  IF current_state \in RedStates THEN
            Estimate(Some(time_until_phase_change),
                     Some(RatAdd(RatInt(time_until_phase_change), next_green_duration)),
                     Some(Absent))
        ELSE IF current_state \in YellowStates THEN
            Estimate(Some(time_until_phase_change + YellowRedDurationCs),
                     Some(RatAdd(RatInt(time_until_phase_change + YellowRedDurationCs),
                                 next_green_duration)),
                     Some(Absent))
        ELSE IF current_state \in GreenStates THEN
            Estimate(Some(time_until_phase_change + RedDurationCs),
                     Some(RatAdd(RatInt(time_until_phase_change + RedDurationCs),
                                 next_green_duration)),
                     Some(time_until_phase_change))
        ELSE NoEstimate

\* t0 is a parameter of the function that it never reads
estimate_green_window_from_countdown(current_state, countdown_value, next_green_duration) ==
    LET time_until_phase_change == countdown_value * TickCs
    IN  IF current_state \in RedStates THEN
            Estimate(Some(time_until_phase_change),
                     Some(RatAdd(RatInt(time_until_phase_change), next_green_duration)),
                     Some(Absent))
        ELSE IF current_state \in YellowStates THEN
            Estimate(Some(time_until_phase_change + RedDurationCs),
                     Some(RatAdd(RatInt(time_until_phase_change + RedDurationCs),
                                 next_green_duration)),
                     Some(Absent))
        ELSE IF current_state \in GreenStates THEN
            Estimate(Some(time_until_phase_change + YellowRedDurationCs),
                     Some(RatAdd(RatInt(time_until_phase_change + YellowRedDurationCs),
                                 next_green_duration)),
                     Some(time_until_phase_change))
        ELSE NoEstimate

\* self.tick_intervals.append(actual_interval); pop(0) beyond 20 entries
RecordInterval_DropNewest(intervals, actual_interval) ==
    IF Len(intervals) + 1 > TickHistoryCap
    THEN intervals
    ELSE Append(intervals, actual_interval)

RecordInterval_NoCap(intervals, actual_interval) ==
    Append(intervals, actual_interval)

RecordInterval(intervals, actual_interval) ==
    LET appended == Append(intervals, actual_interval)
    IN  IF Len(appended) > TickHistoryCap THEN Tail(appended) ELSE appended

\* sum/len if the list is non-empty else 0.1, then the low-pass floor
AvgTickDuration_NoFloor(intervals) ==
    IF intervals = <<>> THEN RatInt(DefaultTickCs)
    ELSE Rat(SumSeq(intervals), Len(intervals))

AvgTickDuration(intervals) ==
    LET avg == IF intervals = <<>> THEN RatInt(DefaultTickCs)
               ELSE Rat(SumSeq(intervals), Len(intervals))
    IN  IF RatLess(avg, RatInt(NoiseFloorCs)) THEN RatInt(DefaultTickCs) ELSE avg

----------------------------------------------------------------------------
\* DMSI.py: floating-point values.  A float is finite (k = 0, value v), +inf
\* (k = 1), -inf (k = -1) or nan (k = 2); times are in milliseconds.

Fin(v) == [k |-> 0, v |-> v]

PosInf == [k |-> 1, v |-> 0]

NegInf == [k |-> -1, v |-> 0]

NaN == [k |-> 2, v |-> 0]

\* a < b: false when either is nan
FLess(a, b) ==
    /\ a.k # 2
    /\ b.k # 2
    /\ \/ a.k < b.k
       \/ a.k = 0 /\ b.k = 0 /\ a.v < b.v

\* a <= b: false when either is nan
FLessEq(a, b) ==
    /\ a.k # 2
    /\ b.k # 2
    /\ \/ a.k < b.k
       \/ a.k = b.k /\ a.k # 0
       \/ a.k = 0 /\ b.k = 0 /\ a.v <= b.v

\* Python's max(a, b): b when b > a, else a
PyMax(a, b) == IF FLess(a, b) THEN b ELSE a

\* Python's min(a, b): b when b < a, else a
PyMin(a, b) == IF FLess(b, a) THEN b ELSE a

----------------------------------------------------------------------------
\* DMSI.py: identify_scenario.  gamma is a sequence of intervals <<start, end>>.

\* first loop: start <= t_cr < end for some interval
RECURSIVE CruiseInGreen(_, _)
CruiseInGreen(gamma, t_cr) ==
    IF gamma = <<>> THEN FALSE
    ELSE LET interval == Head(gamma)
         IN  IF /\ Len(interval) = 2
                /\ FLessEq(interval[1], t_cr)
                /\ FLess(t_cr, interval[2])
             THEN TRUE
             ELSE CruiseInGreen(Tail(gamma), t_cr)

\* second and third loop: max(lo, start) < min(hi, end) for some interval
RECURSIVE OverlapFound(_, _, _)
OverlapFound(gamma, lo, hi) ==
    IF gamma = <<>> THEN FALSE
    ELSE LET interval == Head(gamma)
         IN  IF /\ Len(interval) = 2
                /\ FLess(PyMax(lo, interval[1]), PyMin(hi, interval[2]))
             THEN TRUE
             ELSE OverlapFound(Tail(gamma), lo, hi)

identify_scenario_ClosedEnd(gamma_intervals, t_cr, t_e, t_l) ==
    IF \E k \in 1..Len(gamma_intervals) :
           /\ FLessEq(gamma_intervals[k][1], t_cr)
           /\ FLessEq(t_cr, gamma_intervals[k][2])
       THEN <<"Scenario 1", 1>>
    ELSE IF OverlapFound(gamma_intervals, t_e, t_cr) THEN <<"Scenario 2", 2>>
    ELSE IF ~OverlapFound(gamma_intervals, t_cr, t_l) THEN <<"Scenario 3", 3>>
    ELSE <<"Scenario 4", 4>>

identify_scenario_NoCruise(gamma_intervals, t_cr, t_e, t_l) ==
    IF OverlapFound(gamma_intervals, t_e, t_cr) THEN <<"Scenario 2", 2>>
    ELSE IF ~OverlapFound(gamma_intervals, t_cr, t_l) THEN <<"Scenario 3", 3>>
    ELSE <<"Scenario 4", 4>>

identify_scenario_StopFirst(gamma_intervals, t_cr, t_e, t_l) ==
    IF CruiseInGreen(gamma_intervals, t_cr) THEN <<"Scenario 1", 1>>
    ELSE IF ~OverlapFound(gamma_intervals, t_cr, t_l) THEN <<"Scenario 3", 3>>
    ELSE IF OverlapFound(gamma_intervals, t_e, t_cr) THEN <<"Scenario 2", 2>>
    ELSE <<"Scenario 4", 4>>

identify_scenario(gamma_intervals, t_cr, t_e, t_l) ==
    IF CruiseInGreen(gamma_intervals, t_cr) THEN <<"Scenario 1", 1>>
    ELSE IF OverlapFound(gamma_intervals, t_e, t_cr) THEN <<"Scenario 2", 2>>
    ELSE IF ~OverlapFound(gamma_intervals, t_cr, t_l) THEN <<"Scenario 3", 3>>
    ELSE <<"Scenario 4", 4>>

\* no evaluation of identify_scenario on its own
NoScenRun == [gamma |-> <<>>, t_cr |-> Fin(0), t_e |-> Fin(0), t_l |-> Fin(0),
              result |-> None]

----------------------------------------------------------------------------
\* DMSI.py: Core.  Distances are in mm, speeds in mm/s (inputs in 1/100 km/h),
\* times in ms; pi is 355/113.

\* a_max = 1.0 m/s^2
a_max == 1

\* jerk_max = 1.0 m/s^3
jerk_max == 1

\* v_limit = 56.33 km/h
v_limit == 5633

\* v_coast = 12.87 km/h
v_coast == 1287

\* g_e_curr == -1: no current green (seconds, here ms)
NoCurrentGreen == -1000

\* v * (5.0 / 18.0): 1/100 km/h to mm/s
KmhToMs(v) == (v * 25) \div 9

RECURSIVE SqrtSearch(_, _, _)
SqrtSearch(n, lo, hi) ==
    IF lo = hi THEN lo
    ELSE LET mid == (lo + hi + 1) \div 2
         IN  IF mid * mid <= n THEN SqrtSearch(n, mid, hi)
             ELSE SqrtSearch(n, lo, mid - 1)

\* np.sqrt of a non-negative value, rounded down
ISqrt(n) == SqrtSearch(n, 0, 46340)

\* np.pi / (2 * min(term1, term2)) in ms, for the speed difference delta (mm/s),
\* where term1 = 2*a_max/delta and term2 = np.sqrt(2*jerk_max/delta):
\*   delta > 0: both terms are positive and pi/(2*min) is the larger of
\*              pi*delta/(4*a_max) and (pi/2)*sqrt(delta/(2*jerk_max));
\*   delta < 0: term1 is negative and term2 is nan, min(term1, nan) is term1;
\*   delta = 0: reached only with numpy floats, both terms are inf, pi/inf = 0.
HalfPiOverRate(delta) ==
    IF delta = 0 THEN 0
    ELSE IF delta < 0 THEN (355 * delta) \div (113 * 4 * a_max)
    ELSE LET by_acc == (355 * delta) \div (113 * 4 * a_max)
             by_jerk == (355 * ISqrt((500 * delta) \div jerk_max)) \div 226
         IN  IF by_acc >= by_jerk THEN by_acc ELSE by_jerk

\* d_0_in / v_c_ms with numpy floats when v_c_ms may be 0
CruiseTime(d_0, v_c_ms) ==
    IF v_c_ms # 0 THEN Fin((d_0 * 1000) \div v_c_ms)
    ELSE IF d_0 > 0 THEN PosInf
    ELSE IF d_0 < 0 THEN NegInf
    ELSE NaN

\* ((d_0 - v_c_ms * pi/(2r)) / v_bound_ms) + pi/(2r), half == pi/(2r) in ms
ReachTime(d_0, v_c_ms, v_bound_ms, half) ==
    Fin((((d_0 - (v_c_ms * half) \div 1000) * 1000) \div v_bound_ms) + half)

\* gamma_intervals of Core
DMSI_Gamma(t_0_in, g_e_curr_in, g_s_next_in, g_e_next_in) ==
    IF g_e_curr_in = NoCurrentGreen
    THEN <<  <<Fin(g_s_next_in), Fin(g_e_next_in)>>  >>
    ELSE <<  <<Fin(t_0_in), Fin(g_e_curr_in)>>,
             <<Fin(g_s_next_in), Fin(g_e_next_in)>>  >>

DMSI_Written(scenario, scenario_n, d_0_out) ==
    [scenario |-> scenario, scenario_n |-> scenario_n, d_0_out |-> d_0_out,
     raised |-> None]

DMSI_Raised(exception) ==
    [scenario |-> None, scenario_n |-> None, d_0_out |-> None,
     raised |-> Some(exception)]

DMSI_NoOutput == DMSI_Written(None, None, None)

\* What one invocation of Core writes for the inputs
\*   i = [d_0, v_c_in, t_0, g_e_curr, g_s_next, g_e_next], each None or a value.
\* With Python floats a division by zero raises ZeroDivisionError; with numpy
\* floats it gives inf or nan and Core goes on.
DMSI_Result(i) ==
    IF i.t_0 = None THEN
        \* None * 1e-6, before the validation
        DMSI_Raised("TypeError")
    ELSE IF \/ i.d_0 = None \/ i.v_c_in = None \/ i.g_e_curr = None
            \/ i.g_s_next = None \/ i.g_e_next = None THEN
        DMSI_Written(Some("Missing Inputs"), None, None)
    ELSE
        LET d_0_in == Val(i.d_0)
            t_0_in == RoundToCs(Val(i.t_0)) * 10
            gamma_intervals == DMSI_Gamma(t_0_in, Val(i.g_e_curr),
                                          Val(i.g_s_next), Val(i.g_e_next))
            v_c_ms == KmhToMs(Val(i.v_c_in))
            v_limit_ms == KmhToMs(v_limit)
            v_coast_ms == KmhToMs(v_coast)
            t_cr == CruiseTime(d_0_in, v_c_ms)
            t_e == ReachTime(d_0_in, v_c_ms, v_limit_ms,
                             HalfPiOverRate(v_limit_ms - v_c_ms))
            t_l == ReachTime(d_0_in, v_c_ms, v_coast_ms,
                             HalfPiOverRate(v_c_ms - v_coast_ms))
            result == identify_scenario(gamma_intervals, t_cr, t_e, t_l)
        IN  IF ~np_floats /\ (\/ v_limit_ms - v_c_ms = 0
                              \/ v_c_ms - v_coast_ms = 0
                              \/ v_c_ms = 0) THEN
                \* term1p, term1q or t_cr, all before the speed check
                DMSI_Raised("ZeroDivisionError")
            ELSE IF v_c_ms < 0 \/ v_c_ms > v_limit_ms THEN
                DMSI_Written(Some("Invalid Speed"), None, Some(d_0_in))
            ELSE
                DMSI_Written(Some(result[1]), Some(result[2]), Some(d_0_in))

\* the gamma_intervals Core builds, once the inputs passed the validation
DMSI_GammaBuilt(i) ==
    IF \E field \in DOMAIN i : i[field] = None THEN None
    ELSE Some(DMSI_Gamma(RoundToCs(Val(i.t_0)) * 10, Val(i.g_e_curr),
                         Val(i.g_s_next), Val(i.g_e_next)))

DMSI_Core_Sticky(i) ==
    /\ dmsi_in' = Some(i)
    /\ dmsi_gamma' = DMSI_GammaBuilt(i)
    /\ dmsi_out' = IF dmsi_out.scenario_n # None /\ DMSI_Result(i).scenario_n # None
                   THEN [DMSI_Result(i) EXCEPT !.scenario = dmsi_out.scenario,
                                               !.scenario_n = dmsi_out.scenario_n]
                   ELSE DMSI_Result(i)

\* Core: nothing of self is read or written
DMSI_Core(i) ==
    /\ dmsi_in' = Some(i)
    /\ dmsi_gamma' = DMSI_GammaBuilt(i)
    /\ dmsi_out' = DMSI_Result(i)

\* Birth; the kind of float the inputs carry is fixed for the run
DMSI_Init ==
    /\ np_floats \in BOOLEAN
    /\ dmsi_in = None
    /\ dmsi_out = DMSI_NoOutput
    /\ dmsi_gamma = None
    /\ dmsi_ref = None

\* the classifier out of use
DMSI_Idle ==
    /\ np_floats = FALSE
    /\ dmsi_in = None
    /\ dmsi_out = DMSI_NoOutput
    /\ dmsi_gamma = None
    /\ dmsi_ref = None

----------------------------------------------------------------------------
\* DMTG.py: numeric helpers.  Times are in ms, speeds in mm/s, distances in mm,
\* rates (m, n) in 1/1000 per second, angles in 1/1000 rad, cosines in 1/1000.

\* self.dt = 0.1
dt == 100

\* the smallest integer not below a / b, for b > 0
CeilDiv(a, b) == -((-a) \div b)

\* np.cos on [0, pi/2]: 1 - x^2/2 + x^4/24 - x^6/720
CosQuarter(x) ==
    LET x2 == (x * x) \div 1000
        x4 == (x2 * x2) \div 1000
        x6 == (x4 * x2) \div 1000
    IN  1000 - (x2 \div 2) + (x4 \div 24) - (x6 \div 720)

\* np.cos: even, of period 2 pi, odd about pi/2
Cos(x) ==
    LET a == Abs(x) % 6283
        b == IF a > 3142 THEN 6283 - a ELSE a
    IN  IF b > 1571 THEN -CosQuarter(3142 - b) ELSE CosQuarter(b)

\* rate * time as an angle
Angle(rate, t) == (rate * t) \div 1000

\* np.pi / (2 * rate), in ms
QuarterPeriod(rate) == 1570796 \div rate

\* v * 3.6: mm/s to 1/100 km/h, rounded to the nearest
MsToKmh(v) == (v * 9 + 12) \div 25

\* np.arange(start, stop, step) as the list of its values.  The length is
\* ceil((stop - start) / step) computed in floating point: where the quotient
\* is a whole number the rounding of the division may give one more value
\* (extra = 1).
arange(start, stop, step, extra) ==
    LET exact == CeilDiv(stop - start, step)
        len == IF exact <= 0 THEN 0
               ELSE IF (stop - start) % step = 0 THEN exact + extra
               ELSE exact
    IN  [k \in 1..len |-> start + (k - 1) * step]

----------------------------------------------------------------------------
\* DMTG.py: the arrival-time searches

PyMinList_First(xs) == xs[1]

\* Python's min of a non-empty list: the first of the smallest
RECURSIVE PyMinList(_)
PyMinList(xs) ==
    IF Len(xs) = 1 THEN xs[1]
    ELSE PyMin(PyMinList(SubSeq(xs, 1, Len(xs) - 1)), xs[Len(xs)])

\* the loop of both searches: the overlap starts max(lo, start) of the
\* intervals with max(lo, start) < min(hi, end), in the order of gamma
RECURSIVE Intersections(_, _, _)
Intersections(gamma, lo, hi) ==
    IF gamma = <<>> THEN <<>>
    ELSE LET interval == Head(gamma)
             overlap_start == PyMax(lo, interval[1])
             overlap_end == PyMin(hi, interval[2])
             rest == Intersections(Tail(gamma), lo, hi)
         IN  IF Len(interval) = 2 /\ FLess(overlap_start, overlap_end)
             THEN <<overlap_start>> \o rest
             ELSE rest

calculate_scen2_t_arr(t_e, t_cr, gamma) ==
    LET intersections == Intersections(gamma, t_e, t_cr)
    IN  IF intersections # <<>> THEN Some(PyMinList(intersections)) ELSE None

calculate_scen4_t_arr_Swapped(t_l, t_cr, gamma) ==
    LET intersections == Intersections(gamma, t_l, t_cr)
    IN  IF intersections # <<>> THEN Some(PyMinList(intersections)) ELSE None

calculate_scen4_t_arr(t_l, t_cr, gamma) ==
    LET intersections == Intersections(gamma, t_cr, t_l)
    IN  IF intersections # <<>> THEN Some(PyMinList(intersections)) ELSE None

NoArrRun == None

----------------------------------------------------------------------------
\* DMTG.py: the profile shapes and their rates

\* d_max = 1.0 m/s^2
d_max == 1

\* Scenario 2: the five phases, then v_c
f(t, v_c, v_h, v_d, m, n, t_1, d_0, t_2, t_3) ==
    IF 0 <= t /\ t <= QuarterPeriod(m) THEN
        v_h - (v_d * Cos(Angle(m, t))) \div 1000
    ELSE IF t <= t_1 THEN
        v_h - (((m * v_d) \div n) * Cos(Angle(n, t + 3141593 \div n - t_1))) \div 1000
    ELSE IF t <= (d_0 * 1000) \div v_h THEN
        v_h + (m * v_d) \div n
    ELSE IF t <= t_2 THEN
        v_h - (((m * v_d) \div n) * Cos(Angle(n, t + 4712389 \div n - t_2))) \div 1000
    ELSE IF t <= t_3 THEN
        v_h - (v_d * Cos(Angle(m, t - t_3))) \div 1000
    ELSE v_c

\* Scenario 3: decay to a stop, wait, ramp up
g(t, v_c, t_arr, g_next_s, t_5, m) ==
    IF 0 <= t /\ t < t_arr THEN
        IF t > 3141593 \div m THEN 0
        ELSE v_c \div 2 + ((v_c \div 2) * Cos(Angle(m, t))) \div 1000
    ELSE IF t_arr <= t /\ t < g_next_s THEN 0
    ELSE IF g_next_s <= t /\ t < t_5 THEN
        v_c \div 2 + ((v_c \div 2) * Cos(Angle(m, t - t_5))) \div 1000
    ELSE v_c

\* Scenario 4: the same five phases as Scenario 2
h(t, v_c, v_h, v_d, m, n, t_1, d_0, t_2, t_3) ==
    IF 0 <= t /\ t <= QuarterPeriod(m) THEN
        v_h - (v_d * Cos(Angle(m, t))) \div 1000
    ELSE IF t <= t_1 THEN
        v_h - (((m * v_d) \div n) * Cos(Angle(n, t + 3141593 \div n - t_1))) \div 1000
    ELSE IF t <= (d_0 * 1000) \div v_h THEN
        v_h + (m * v_d) \div n
    ELSE IF t <= t_2 THEN
        v_h - (((m * v_d) \div n) * Cos(Angle(n, t + 4712389 \div n - t_2))) \div 1000
    ELSE IF t <= t_3 THEN
        v_h - (v_d * Cos(Angle(m, t - t_3))) \div 1000
    ELSE v_c

\* the rate n of Scenarios 2 and 4; None where min() of the empty candidate
\* list raises ValueError (abs(v_d) <= 1e-6)
calculate_n_scen2and4(a, d, jerk, v_d, v_h, d_0) ==
    IF Abs(v_d) = 0 THEN None
    ELSE LET n_acc == (a * 1000000) \div Abs(v_d)
             n_dec == (d * 1000000) \div Abs(v_d)
             n_jerk == ISqrt((jerk * 1000000000) \div Abs(v_d))
             least == IF n_dec < n_acc
                      THEN (IF n_jerk < n_dec THEN n_jerk ELSE n_dec)
                      ELSE (IF n_jerk < n_acc THEN n_jerk ELSE n_acc)
             n_lower_bound == IF Abs(v_h) > 0 /\ Abs(d_0) > 0
                              THEN (571 * v_h) \div d_0
                              ELSE 10
         IN  Some(IF n_lower_bound > least THEN n_lower_bound ELSE least)

\* the rate m of Scenarios 2 and 4 (v_h # 0)
calculate_m_scen2and4(n, d_0, v_h) ==
    LET numerator_part1 == -((1571 * n) \div 1000)
        bracket == 571 - (((d_0 * 1000) \div v_h) * n) \div 1000
        inside_sqrt == numerator_part1 * numerator_part1
                           - 4 * ((n * n) \div 1000) * bracket
        sqrt_term == IF inside_sqrt < 0 THEN 0 ELSE ISqrt(inside_sqrt)
        numerator == numerator_part1 - sqrt_term
        denominator == 2 * bracket
    IN  IF Abs(denominator) = 0 THEN 1000000000
        ELSE (numerator * 1000) \div denominator

\* v_h / d_0 * np.pi (d_0 # 0)
calculate_m_scen3(d_0, v_h) == (v_h * 3142) \div d_0

\* v_h / d_0 * np.pi (d_0 # 0)
calculate_n_scen3(d_0, v_h) == (v_h * 3142) \div d_0

----------------------------------------------------------------------------
\* DMTG.py: compute_velocity_profile

\* gamma_intervals of compute_velocity_profile
DMTG_Gamma_NextFirst(t_0, g_e_curr_in, g_s_next_in, g_e_next_in) ==
    IF g_e_curr_in = NoCurrentGreen
    THEN <<  <<Fin(g_s_next_in), Fin(g_e_next_in)>>  >>
    ELSE <<  <<Fin(g_s_next_in), Fin(g_e_next_in)>>,
             <<Fin(t_0), Fin(g_e_curr_in)>>  >>

DMTG_Gamma(t_0, g_e_curr_in, g_s_next_in, g_e_next_in) ==
    IF g_e_curr_in = NoCurrentGreen
    THEN <<  <<Fin(g_s_next_in), Fin(g_e_next_in)>>  >>
    ELSE <<  <<Fin(t_0), Fin(g_e_curr_in)>>,
             <<Fin(g_s_next_in), Fin(g_e_next_in)>>  >>

\* how a scenario branch of compute_velocity_profile ends
Sampled(profile, t_end, t_arr) ==
    [kind |-> "sampled", profile |-> profile, t_end |-> t_end, t_arr |-> t_arr,
     raised |-> None]

BareReturn_EmptyProfile(t_arr) ==
    [kind |-> "sampled", profile |-> <<>>, t_end |-> 0, t_arr |-> t_arr,
     raised |-> None]

\* return (None) before any sample
BareReturn(t_arr) ==
    [kind |-> "return", profile |-> <<>>, t_end |-> 0, t_arr |-> t_arr,
     raised |-> None]

BranchRaised(exception, t_arr) ==
    [kind |-> "raised", profile |-> <<>>, t_end |-> 0, t_arr |-> t_arr,
     raised |-> Some(exception)]

\* no branch taken: profile stays [] and t_end is never bound
NoBranch ==
    [kind |-> "nobranch", profile |-> <<>>, t_end |-> 0, t_arr |-> None,
     raised |-> None]

\* v >= v_limit: v = v_limit
ClampToLimit(v) == IF v >= v_limit THEN v_limit ELSE v

\* the one element of a singleton: {e(x) : x \in {d}} evaluates d once and
\* names its value x
Only(S) == CHOOSE x \in S : TRUE

\* the branch scenario == "Scenario 1"
Scenario1Branch(t_0, v_c_ms, extra) ==
    LET t_end == t_0 + 30000
    IN  Only({Sampled([k \in 1..Len(times) |-> <<times[k], v>>], t_end, None) :
                times \in {arange(t_0, t_end + dt, dt, extra)},
                v \in {ClampToLimit(MsToKmh(v_c_ms))}})

\* v_h, v_d and n of Scenarios 2 and 4 (t_arr # 0); n is None where
\* calculate_n_scen2and4 raises
Rates24(d_0, v_c_ms, t_arr) ==
    Only({[v_h |-> v_h, v_d |-> v_h - v_c_ms,
           n |-> calculate_n_scen2and4(a_max, d_max, jerk_max, v_h - v_c_ms, v_h, d_0)] :
             v_h \in {(d_0 * 1000) \div t_arr}})

\* m, t_1, t_2, t_3 and t_end of Scenarios 2 and 4 (v_h # 0)
Times24(d_0, v_h, n) ==
    Only({[m |-> m,
           t_1 |-> QuarterPeriod(m) + QuarterPeriod(n),
           t_2 |-> (d_0 * 1000) \div v_h + QuarterPeriod(n),
           t_3 |-> (d_0 * 1000) \div v_h + QuarterPeriod(m) + QuarterPeriod(n),
           t_end |-> (d_0 * 1000) \div v_h + QuarterPeriod(m) + QuarterPeriod(n) + 1000] :
             m \in {calculate_m_scen2and4(n, d_0, v_h)}})

\* the sampling loop of Scenarios 2 and 4
Samples24(scenario, t_0, d_0, v_c_ms, r, x, extra) ==
    Only({[k \in 1..Len(times) |->
              <<times[k],
                MsToKmh(IF scenario = "Scenario 2"
                        THEN f(times[k] - t_0, v_c_ms, r.v_h, r.v_d, x.m, Val(r.n),
                               x.t_1, d_0, x.t_2, x.t_3)
                        ELSE h(times[k] - t_0, v_c_ms, r.v_h, r.v_d, x.m, Val(r.n),
                               x.t_1, d_0, x.t_2, x.t_3))>>] :
             times \in {arange(t_0, x.t_end + dt, dt, extra)}})

\* the branch scenario == "Scenario 2" or scenario == "Scenario 4"
Scenario24Branch(scenario, t_0, d_0, v_c_ms, t_cr, t_e, t_l, gamma_intervals, extra) ==
    Only({
        IF found = None THEN BareReturn(None)
        ELSE IF Val(found).v = 0 THEN
            \* d_0 / t_arr: raises, or gives inf or nan, which end in
            \* min() of no candidates or in np.arange up to nan
            BranchRaised(IF np_floats THEN "ValueError" ELSE "ZeroDivisionError", found)
        ELSE Only({
            IF r.n = None THEN BranchRaised("ValueError", found)
            ELSE IF r.v_h = 0 THEN
                \* d_0 / v_h in calculate_m_scen2and4: raises, or gives nan
                BranchRaised(IF np_floats THEN "ValueError" ELSE "ZeroDivisionError",
                             found)
            ELSE Only({Sampled(Samples24(scenario, t_0, d_0, v_c_ms, r, x, extra),
                               x.t_end, found) :
                         x \in {Times24(d_0, r.v_h, Val(r.n))}}) :
              r \in {Rates24(d_0, v_c_ms, Val(found).v)}}) :
        found \in {IF scenario = "Scenario 2"
                   THEN calculate_scen2_t_arr(t_e, t_cr, gamma_intervals)
                   ELSE calculate_scen4_t_arr(t_l, t_cr, gamma_intervals)}})

\* v_h, t_arr, m, n, t_5 and t_end of Scenario 3 (v_c_ms > v_coast_ms).  With
\* d_0 = 0 and numpy floats m and n are inf, pi / (2 * inf) is 0, and no phase
\* of g that reads m has any t in it.
Times3(d_0, v_c_ms, g_s_next_in) ==
    Only({[v_h |-> v_h,
           t_arr |-> (d_0 * 1000) \div v_h,
           m |-> IF d_0 = 0 THEN 1 ELSE calculate_m_scen3(d_0, v_h),
           t_5 |-> g_s_next_in + q + q,
           t_end |-> g_s_next_in + q + q + 1000] :
             v_h \in {v_c_ms \div 2},
             q \in {IF d_0 = 0 THEN 0
                    ELSE QuarterPeriod(calculate_n_scen3(d_0, v_c_ms \div 2))}})

\* the branch scenario == "Scenario 3"
Scenario3Branch(t_0, d_0, v_c_ms, v_coast_ms, g_s_next_in, extra) ==
    IF v_c_ms <= v_coast_ms THEN BareReturn(None)
    ELSE IF d_0 = 0 /\ ~np_floats THEN BranchRaised("ZeroDivisionError", None)
    ELSE Only({
        Sampled([k \in 1..Len(times) |->
                    <<times[k],
                      ClampToLimit(MsToKmh(g(times[k] - t_0, v_c_ms, x.t_arr,
                                             g_s_next_in, x.t_5, x.m)))>>],
                x.t_end, Some(Fin(x.t_arr))) :
          x \in {Times3(d_0, v_c_ms, g_s_next_in)},
          times \in {arange(t_0, Times3(d_0, v_c_ms, g_s_next_in).t_end + dt, dt, extra)}})

\* what compute_velocity_profile gives back to Core
ComputeResult(profile, start, end, raised, gamma, t_arr) ==
    [profile |-> profile, start |-> start, end |-> end, raised |-> raised,
     gamma |-> gamma, t_arr |-> t_arr]

\* compute_velocity_profile.  v_c is None or a value, the other inputs are
\* values.  extra: the rounding in np.arange; sink_ok: save_profile_to_file
\* wrote its file.  profile = None with raised = None is the bare return.
compute_velocity_profile(t_0, d_0, v_c, g_e_curr_in, g_s_next_in, g_e_next_in, scenario, extra, sink_ok) ==
    IF v_c = None THEN
        ComputeResult(None, None, None, Some("TypeError"), None, None)
    ELSE IF ~np_floats /\ (\/ KmhToMs(v_limit) - KmhToMs(Val(v_c)) = 0
                           \/ KmhToMs(Val(v_c)) - KmhToMs(v_coast) = 0
                           \/ KmhToMs(Val(v_c)) = 0) THEN
        \* term1p, term1q or t_cr
        ComputeResult(None, None, None, Some("ZeroDivisionError"), None, None)
    ELSE Only({
        Only({
            IF branch.kind = "raised" THEN
                ComputeResult(None, None, None, branch.raised,
                              Some(gamma_intervals), branch.t_arr)
            ELSE IF branch.kind = "return" THEN
                ComputeResult(None, None, None, None, Some(gamma_intervals), branch.t_arr)
            ELSE IF ~sink_ok THEN
                ComputeResult(None, None, None, Some("OSError"),
                              Some(gamma_intervals), branch.t_arr)
            ELSE IF branch.kind = "nobranch" THEN
                \* t_0 + t_end with t_end unbound
                ComputeResult(None, None, None, Some("UnboundLocalError"),
                              Some(gamma_intervals), None)
            ELSE
                ComputeResult(Some(branch.profile), Some(t_0), Some(t_0 + branch.t_end),
                              None, Some(gamma_intervals), branch.t_arr) :
          branch \in {
            IF scenario = "Scenario 1" THEN Scenario1Branch(t_0, v_c_ms, extra)
            ELSE IF scenario = "Scenario 2" \/ scenario = "Scenario 4" THEN
                Scenario24Branch(scenario, t_0, d_0, v_c_ms, t_cr, t_e, t_l,
                                 gamma_intervals, extra)
            ELSE IF scenario = "Scenario 3" THEN
                Scenario3Branch(t_0, d_0, v_c_ms, KmhToMs(v_coast), g_s_next_in, extra)
            ELSE NoBranch}}) :
        v_c_ms \in {KmhToMs(Val(v_c))},
        t_cr \in {CruiseTime(d_0, KmhToMs(Val(v_c)))},
        t_e \in {ReachTime(d_0, KmhToMs(Val(v_c)), KmhToMs(v_limit),
                           HalfPiOverRate(KmhToMs(v_limit) - KmhToMs(Val(v_c))))},
        t_l \in {ReachTime(d_0, KmhToMs(Val(v_c)), KmhToMs(v_coast),
                           HalfPiOverRate(KmhToMs(Val(v_c)) - KmhToMs(v_coast)))},
        gamma_intervals \in {DMTG_Gamma(t_0, g_e_curr_in, g_s_next_in, g_e_next_in)}})

----------------------------------------------------------------------------
\* DMTG.py: Core

\* the test before compute_velocity_profile; the reset above it is never run
NeedsCompute_ResetOnChange(scenario) ==
    precomputed_velocity_profile = None \/ Some(scenario) # last_scenario

NeedsCompute(scenario) == precomputed_velocity_profile = None

\* the index Core reads: 0, -1, or min(int((t_0 - start) / dt), len - 1)
LookupIndex(profile, start, end, t_0) ==
    IF t_0 <= start THEN 0
    ELSE IF t_0 >= end THEN -1
    ELSE LET idx == (t_0 - start) \div dt
         IN  IF Len(profile) - 1 < idx THEN Len(profile) - 1 ELSE idx

\* profile[idx] of a Python list: None where it raises IndexError
PyItem(profile, idx) ==
    IF 0 <= idx /\ idx < Len(profile) THEN Some(profile[idx + 1])
    ELSE IF idx < 0 /\ -Len(profile) <= idx THEN Some(profile[Len(profile) + idx + 1])
    ELSE None

DMTG_Written(v_output) ==
    [v_t_kmh |-> Some(v_output), v_t_mph |-> Some((v_output * 1000) \div 1609),
     raised |-> None]

DMTG_Raised(exception) ==
    [v_t_kmh |-> None, v_t_mph |-> None, raised |-> Some(exception)]

DMTG_NoOutput == [v_t_kmh |-> None, v_t_mph |-> None, raised |-> None]

DMTG_Locals(computed, gamma, t_arr, idx) ==
    [computed |-> computed, gamma |-> gamma, t_arr |-> t_arr, idx |-> idx]

DMTG_NoLocals == DMTG_Locals(FALSE, None, None, None)

\* One cycle on the inputs
\*   i = [scenario, d_0, v_c, t_0, g_e_curr, g_s_next, g_e_next], each None or a
\*   value.  An exception ends the cycle where it is raised.
DMTG_Core(i, extra, sink_ok) ==
    IF i.t_0 = None THEN
        \* None * 1e-6, before the validation
        /\ dmtg_in' = Some(i)
        /\ dmtg_run' = DMTG_NoLocals
        /\ dmtg_out' = DMTG_Raised("TypeError")
        /\ UNCHANGED <<precomputed_velocity_profile, profile_start_time,
                       profile_end_time, last_scenario>>
    ELSE IF \/ i.scenario = None \/ i.d_0 = None \/ i.g_e_curr = None
            \/ i.g_s_next = None \/ i.g_e_next = None THEN
        /\ dmtg_in' = Some(i)
        /\ dmtg_run' = DMTG_NoLocals
        /\ dmtg_out' = DMTG_NoOutput
        /\ UNCHANGED <<precomputed_velocity_profile, profile_start_time,
                       profile_end_time, last_scenario>>
    ELSE
        \E t_0 \in {RoundToCs(Val(i.t_0)) * 10}, computing \in {NeedsCompute(Val(i.scenario))} :
        \E computed \in {IF computing
                         THEN compute_velocity_profile(t_0, Val(i.d_0), i.v_c,
                                  Val(i.g_e_curr), Val(i.g_s_next), Val(i.g_e_next),
                                  Val(i.scenario), extra, sink_ok)
                         ELSE ComputeResult(precomputed_velocity_profile,
                                  profile_start_time, profile_end_time,
                                  None, None, None)} :
            /\ dmtg_in' = Some(i)
            /\ UNCHANGED last_scenario
            /\ IF computed.profile = None THEN
                   \* compute raised, or returned None and the unpacking raised
                   /\ dmtg_run' = DMTG_Locals(TRUE, computed.gamma, computed.t_arr, None)
                   /\ dmtg_out' = DMTG_Raised(IF computed.raised # None
                                              THEN Val(computed.raised)
                                              ELSE "TypeError")
                   /\ UNCHANGED <<precomputed_velocity_profile, profile_start_time,
                                  profile_end_time>>
               ELSE
                   \E idx \in {LookupIndex(Val(computed.profile), Val(computed.start),
                                           Val(computed.end), t_0)} :
                       /\ precomputed_velocity_profile' = computed.profile
                       /\ profile_start_time' = computed.start
                       /\ profile_end_time' = computed.end
                       /\ dmtg_run' = DMTG_Locals(computing, computed.gamma,
                                                  computed.t_arr, Some(idx))
                       /\ dmtg_out' =
                              IF PyItem(Val(computed.profile), idx) = None
                              THEN DMTG_Raised("IndexError")
                              ELSE DMTG_Written(Val(PyItem(Val(computed.profile), idx))[2])

\* Birth
DMTG_Init ==
    /\ precomputed_velocity_profile = None
    /\ profile_start_time = None
    /\ profile_end_time = None
    /\ last_scenario = None
    /\ dmtg_in = None
    /\ dmtg_run = DMTG_NoLocals
    /\ dmtg_out = DMTG_NoOutput

\* the planner and the arrival searches out of use
DMTG_Idle ==
    /\ DMTG_Init
    /\ arr_run = NoArrRun

----------------------------------------------------------------------------
\* GreenWindowEstimator.py: Core

\* the ID gate: both inputs present and equal
IdsMatch_IgnoreSpat(matched, spat) == matched # None

IdsMatch(matched, spat) == matched # None /\ spat # None /\ matched = spat

\* if count_down_in != self.last_cd_tick
CountdownChanged_Always(count_down_in, last) == TRUE

CountdownChanged(count_down_in, last) == Some(count_down_in) # last

\* the "safety check" before the writes: none of the five values is None
HaveValidData(state_in, est) ==
    /\ state_in # None
    /\ est.g_e_curr # None
    /\ est.g_s_next # None
    /\ est.g_e_next # None

NoOutput == [g_e_curr |-> None, g_s_next |-> None, g_e_next |-> None, state |-> None]

Cached == Estimate(g_s_next, g_e_next, g_e_curr)

\* One invocation of Core on the inputs
\*   i = [matched, spat, t0 (microseconds), current_state (name), countdown].
\* t0, current_state and countdown are read only behind the ID gate.
GWE_Core(i) ==
    IF ~IdsMatch(i.matched, i.spat) THEN
        /\ path' = "skipped"
        /\ gwe_in' = [matched |-> i.matched, spat |-> i.spat, t0_in |-> None,
                      current_state_in |-> None, count_down_in |-> None]
        /\ gwe_out' = NoOutput
        /\ UNCHANGED <<has_tick, last_cd_tick, last_tick_time, tick_intervals,
                       g_e_curr, g_s_next, g_e_next>>
    ELSE
        LET t0_in == RoundToCs(i.t0)
            state_in == state_name_to_number(i.current_state)
            count_down_in == IntOfCountdown(i.countdown)
            \* if not hasattr(self, "last_cd_tick"): create the three attributes
            cd0 == IF has_tick THEN last_cd_tick ELSE None
            time0 == IF has_tick THEN last_tick_time ELSE Some(t0_in)
            ints0 == IF has_tick THEN tick_intervals ELSE <<>>
            changed == CountdownChanged(count_down_in, cd0)
            ints1 == IF changed /\ time0 # None
                     THEN RecordInterval(ints0, t0_in - Val(time0))
                     ELSE ints0
            est == IF changed
                   THEN estimate_green_window_from_countdown(
                            state_in, count_down_in,
                            RatMulInt(GreenTicks, AvgTickDuration(ints1)))
                   ELSE Cached
        IN  /\ has_tick' = TRUE
            /\ last_cd_tick' = IF changed THEN Some(count_down_in) ELSE cd0
            /\ last_tick_time' = IF changed THEN Some(t0_in) ELSE time0
            /\ tick_intervals' = ints1
            /\ g_s_next' = est.g_s_next
            /\ g_e_next' = est.g_e_next
            /\ g_e_curr' = est.g_e_curr
            /\ gwe_in' = [matched |-> i.matched, spat |-> i.spat, t0_in |-> Some(t0_in),
                          current_state_in |-> Some(state_in),
                          count_down_in |-> Some(count_down_in)]
            /\ path' = IF changed THEN "updated" ELSE "held"
            /\ gwe_out' = IF HaveValidData(Some(state_in), est)
                          THEN [g_e_curr |-> est.g_e_curr, g_s_next |-> est.g_s_next,
                                g_e_next |-> est.g_e_next, state |-> Some(state_in)]
                          ELSE NoOutput

\* __init__ and Birth: no tick attributes yet, nothing cached, nothing written
GWE_Init ==
    /\ has_tick = FALSE
    /\ last_cd_tick = None
    /\ last_tick_time = None
    /\ tick_intervals = <<>>
    /\ g_e_curr = None
    /\ g_s_next = None
    /\ g_e_next = None
    /\ gwe_in = [matched |-> None, spat |-> None, t0_in |-> None,
                 current_state_in |-> None, count_down_in |-> None]
    /\ path = "init"
    /\ gwe_out = NoOutput

----------------------------------------------------------------------------
\* The tracker's environment: freely chosen inputs, a bounded number of cycles

IntersectionIds == {None, Some(1), Some(2)}

\* microseconds; 52000 us rounds to 5 cs, 296000 and 304000 us both to 30 cs
TimestampsUs == {0, 52000, 296000, 304000}

\* one name of each category, a padded name, and names outside the table
StateNames ==
    {<<"unavailable">>, <<"dark">>, <<"stop-And-Remain">>,
     <<"protected-Movement-Allowed">>, <<Blank, "permissive-clearance", Blank>>,
     <<"green">>}

\* thousandths of a tick: 200000 and 200400 both truncate to 200
Countdowns == {0, 200000, 200400, 500000}

\* every pair of IDs (the other inputs are not read when the gate closes), and
\* every combination of the other inputs behind an open gate
GWE_Inputs ==
    [matched : IntersectionIds, spat : IntersectionIds, t0 : {0},
     current_state : {<<"dark">>}, countdown : {0}]
    \cup
    [matched : {Some(1)}, spat : {Some(1)}, t0 : TimestampsUs,
     current_state : StateNames, countdown : Countdowns]

GWE_Cycle ==
    /\ cycles < MaxCycles
    /\ \E i \in GWE_Inputs : GWE_Core(i)
    /\ cycles' = cycles + 1
    /\ UNCHANGED <<deviations, name_run, scen_run, dmsi_vars, arr_run, dmtg_vars>>

\* no evaluation of state_name_to_number on its own
NoNameRun == [lead |-> 0, core |-> <<>>, trail |-> 0, code |-> None, est |-> None]

GWE_Idle ==
    /\ GWE_Init
    /\ cycles = 0
    /\ deviations = 0

Init ==
    /\ GWE_Idle
    /\ DMSI_Idle
    /\ DMTG_Idle
    /\ name_run = NoNameRun
    /\ scen_run = NoScenRun

Next == GWE_Cycle

Spec == Init /\ [][Next]_vars

----------------------------------------------------------------------------
\* The tracker's environment over a long run: a SPaT feed that counts down one
\* tick every 0.1 s, with a bounded number of off-nominal cycles

\* 0.1 s in microseconds
FeedPeriodUs == 100000

\* the countdown a phase starts from, in ticks
FeedStart == 500

NominalInput(k) ==
    [matched |-> Some(1), spat |-> Some(1), t0 |-> k * FeedPeriodUs,
     current_state |-> <<"protected-Movement-Allowed">>,
     countdown |-> (FeedStart - k) * 1000]

\* a late or an early (non-monotonic) timestamp, a repeated countdown value,
\* a SPaT message of another intersection, a dark signal
OffNominalInputs(k) ==
    {[NominalInput(k) EXCEPT !.t0 = (k + 3) * FeedPeriodUs],
     [NominalInput(k) EXCEPT !.t0 = IF k >= 2 THEN (k - 2) * FeedPeriodUs ELSE 0],
     [NominalInput(k) EXCEPT !.countdown = (FeedStart - k + 1) * 1000],
     [NominalInput(k) EXCEPT !.spat = Some(2)],
     [NominalInput(k) EXCEPT !.current_state = <<"dark">>]}

NominalCycle ==
    /\ cycles < LongRunCycles
    /\ GWE_Core(NominalInput(cycles))
    /\ cycles' = cycles + 1
    /\ UNCHANGED <<deviations, name_run, scen_run, dmsi_vars, arr_run, dmtg_vars>>

OffNominalCycle ==
    /\ cycles < LongRunCycles
    /\ deviations < MaxDeviations
    /\ \E i \in OffNominalInputs(cycles) : GWE_Core(i)
    /\ cycles' = cycles + 1
    /\ deviations' = deviations + 1
    /\ UNCHANGED <<name_run, scen_run, dmsi_vars, arr_run, dmtg_vars>>

NextLongRun == NominalCycle \/ OffNominalCycle

SpecLongRun == Init /\ [][NextLongRun]_vars

----------------------------------------------------------------------------
\* state_name_to_number on its own: a name is given, parsed, and the code is
\* handed to the estimate derivation

RECURSIVE Blanks(_)
Blanks(k) == IF k = 0 THEN <<>> ELSE <<Blank>> \o Blanks(k - 1)

\* the text of a name: blanks, the name's tokens, blanks
Padded(lead, core, trail) == Blanks(lead) \o core \o Blanks(trail)

\* the ten names of the table, and strings that are none of them: the empty
\* string, another case, an English colour, a name with an inner blank, numbers
NameCores ==
    {<<n>> : n \in DOMAIN state_map}
    \cup {<<>>, <<"Dark">>, <<"green">>, <<"stop", Blank, "And-Remain">>,
          <<"3">>, <<"-1">>, <<"stop-And-Remain", Blank, "dark">>}

NameInit ==
    name_run \in [lead : 0..MaxPad, core : NameCores, trail : 0..MaxPad,
                  code : {None}, est : {None}]

ParseName ==
    /\ name_run.code = None
    /\ name_run' =
           [name_run EXCEPT !.code =
               Some(state_name_to_number(
                        Padded(name_run.lead, name_run.core, name_run.trail)))]
    /\ UNCHANGED <<gwe_vars, cycles, deviations, scen_run, dmsi_vars, arr_run, dmtg_vars>>

\* the estimate derived from the parsed code, for a countdown and a nominal
\* next_green_duration of 50 s
EstimateFromName ==
    /\ name_run.code # None
    /\ name_run.est = None
    /\ \E cd \in {0, 200, 500} :
           name_run' =
               [name_run EXCEPT !.est =
                   Some(estimate_green_window_from_countdown(
                            Val(name_run.code), cd,
                            RatMulInt(GreenTicks, RatInt(DefaultTickCs))))]
    /\ UNCHANGED <<gwe_vars, cycles, deviations, scen_run, dmsi_vars, arr_run, dmtg_vars>>

InitParse ==
    /\ GWE_Idle
    /\ DMSI_Idle
    /\ DMTG_Idle
    /\ NameInit
    /\ scen_run = NoScenRun

NextParse == ParseName \/ EstimateFromName

SpecParse == InitParse /\ [][NextParse]_vars

----------------------------------------------------------------------------
\* identify_scenario on its own: thresholds and a gamma are given, then classified

Thresholds == {Fin(v) : v \in 0..MaxThreshold}

Intervals == {<<a, b>> : a \in Thresholds, b \in Thresholds}

\* gamma as Core builds it: one interval, or two
Gammas == {<<x>> : x \in Intervals} \cup {<<x, y>> : x \in Intervals, y \in Intervals}

ScenInit ==
    scen_run \in [gamma : Gammas \cup {<<>>}, t_cr : Thresholds, t_e : Thresholds,
                  t_l : Thresholds, result : {None}]

IdentifyScenario ==
    /\ scen_run.result = None
    /\ scen_run' =
           [scen_run EXCEPT !.result =
               Some(identify_scenario(scen_run.gamma, scen_run.t_cr,
                                      scen_run.t_e, scen_run.t_l))]
    /\ UNCHANGED <<gwe_vars, cycles, deviations, name_run, dmsi_vars, arr_run, dmtg_vars>>

\* both arrival-time searches on the thresholds and gamma of the run
ArrivalSearch ==
    /\ arr_run = None
    /\ arr_run' = Some([scen2 |-> calculate_scen2_t_arr(scen_run.t_e, scen_run.t_cr,
                                                        scen_run.gamma),
                        scen4 |-> calculate_scen4_t_arr(scen_run.t_l, scen_run.t_cr,
                                                        scen_run.gamma)])
    /\ UNCHANGED <<gwe_vars, cycles, deviations, name_run, scen_run, dmsi_vars,
                   dmtg_vars>>

InitScenario ==
    /\ GWE_Idle
    /\ DMSI_Idle
    /\ DMTG_Idle
    /\ name_run = NoNameRun
    /\ ScenInit

NextScenario == IdentifyScenario \/ ArrivalSearch

SpecScenario == InitScenario /\ [][NextScenario]_vars

----------------------------------------------------------------------------
\* The classifier's environment

\* distance to the stop bar, mm
Distances == {0, 100000, 300000}

\* 1/100 km/h: negative, zero, below v_coast, v_coast, between, v_limit, above
Speeds == {-1000, 0, 1000, 1287, 3000, 5633, 6000}

\* (g_e_curr, g_s_next, g_e_next) in ms
Windows == {<<-1000, 12000, 62000>>, <<-1000, 30000, 40000>>, <<5000, 18000, 25000>>}

\* microseconds: 10 s, a later moment of the same approach
LaterTimeUs == 10000000

DMSI_Input(d, v, t, w) ==
    [d_0 |-> Some(d), v_c_in |-> Some(v), t_0 |-> Some(t),
     g_e_curr |-> Some(w[1]), g_s_next |-> Some(w[2]), g_e_next |-> Some(w[3])]

\* every distance, speed and window at time 0; the mid speed later on as well
DMSI_FullInputs ==
    {DMSI_Input(d, v, 0, w) : d \in Distances, v \in Speeds, w \in Windows}
    \cup {DMSI_Input(d, 3000, LaterTimeUs, w) : d \in Distances \ {0}, w \in Windows}

\* one complete input, with each of its six values in turn missing
DMSI_PartialInputs ==
    LET full == [d_0 |-> Some(100000), v_c_in |-> Some(3000), t_0 |-> Some(0),
                 g_e_curr |-> Some(-1000), g_s_next |-> Some(12000),
                 g_e_next |-> Some(62000)]
    IN  {[full EXCEPT ![field] = None] : field \in DOMAIN full}

DMSI_Inputs == DMSI_FullInputs \cup DMSI_PartialInputs

\* one cycle; an invocation kept for comparison notes that other inputs came by
DMSI_Cycle ==
    \E i \in DMSI_Inputs :
        /\ DMSI_Core(i)
        /\ dmsi_ref' = IF dmsi_ref # None /\ i # Val(dmsi_ref).in
                       THEN Some([Val(dmsi_ref) EXCEPT !.between = TRUE])
                       ELSE dmsi_ref
        /\ UNCHANGED np_floats
        /\ UNCHANGED <<gwe_vars, cycles, deviations, name_run, scen_run, arr_run, dmtg_vars>>

\* keep the last invocation to compare later ones with
DMSI_Remember ==
    /\ dmsi_in # None
    /\ dmsi_ref = None
    /\ dmsi_ref' = Some([in |-> Val(dmsi_in), out |-> dmsi_out, between |-> FALSE])
    /\ UNCHANGED <<np_floats, dmsi_in, dmsi_out, dmsi_gamma>>
    /\ UNCHANGED <<gwe_vars, cycles, deviations, name_run, scen_run, arr_run, dmtg_vars>>

InitDMSI ==
    /\ GWE_Idle
    /\ name_run = NoNameRun
    /\ scen_run = NoScenRun
    /\ DMSI_Init
    /\ DMTG_Idle

NextDMSI == DMSI_Cycle \/ DMSI_Remember

SpecDMSI == InitDMSI /\ [][NextDMSI]_vars

----------------------------------------------------------------------------
\* The planner's environment

\* the four labels the planner knows
Labels == {"Scenario 1", "Scenario 2", "Scenario 3", "Scenario 4"}

\* microseconds: 0 s, 10.05 s and 50 s
PlannerTimesUs == {0, 10050000, 50000000}

\* distance to the stop bar, mm
PlannerDistances == {100000, 300000}

\* (g_e_curr, g_s_next, g_e_next) in ms
PlannerWindows == {<<5000, 18000, 25000>>}

DMTG_Input(label, d, v, t, w) ==
    [scenario |-> Some(label), d_0 |-> Some(d), v_c |-> Some(v), t_0 |-> Some(t),
     g_e_curr |-> Some(w[1]), g_s_next |-> Some(w[2]), g_e_next |-> Some(w[3])]

\* every label, time, distance and window at 30 km/h
DMTG_FullInputs ==
    {DMTG_Input(l, d, 3000, t, w) :
        l \in Labels, d \in PlannerDistances, t \in PlannerTimesUs, w \in PlannerWindows}

\* a text that is no label, a stop-and-wait below v_coast, and cruising above
\* v_limit, at v_limit and at rest
DMTG_OddInputs ==
    {DMTG_Input("Invalid Speed", 100000, 3000, 0, <<-1000, 12000, 62000>>),
     DMTG_Input("Scenario 3", 100000, 1000, 0, <<-1000, 12000, 62000>>),
     DMTG_Input("Scenario 1", 100000, 6000, 0, <<-1000, 12000, 62000>>),
     DMTG_Input("Scenario 1", 100000, 5633, 0, <<-1000, 12000, 62000>>),
     DMTG_Input("Scenario 1", 100000, 0, 0, <<-1000, 12000, 62000>>)}

\* one complete input, with each of its seven values in turn missing
DMTG_PartialInputs ==
    LET full == DMTG_Input("Scenario 1", 100000, 3000, 0, <<-1000, 12000, 62000>>)
    IN  {[full EXCEPT ![field] = None] : field \in DOMAIN full}

DMTG_Inputs == DMTG_FullInputs \cup DMTG_OddInputs \cup DMTG_PartialInputs

\* what the classifier reads of the planner's inputs
ClassifierInputs(i) ==
    [d_0 |-> i.d_0, v_c_in |-> i.v_c, t_0 |-> i.t_0, g_e_curr |-> i.g_e_curr,
     g_s_next |-> i.g_s_next, g_e_next |-> i.g_e_next]

\* one cycle of the loop: the classifier and the planner read the same distance,
\* speed, time and window; the label the planner reads is any text.
DMTG_Cycle ==
    \E i \in DMTG_Inputs, extra \in {0, 1}, sink_ok \in BOOLEAN :
        /\ DMTG_Core(i, extra, sink_ok)
        /\ DMSI_Core(ClassifierInputs(i))
        /\ UNCHANGED <<np_floats, dmsi_ref>>
        /\ UNCHANGED <<gwe_vars, cycles, deviations, name_run, scen_run, arr_run>>

InitDMTG ==
    /\ GWE_Idle
    /\ name_run = NoNameRun
    /\ scen_run = NoScenRun
    /\ DMSI_Init
    /\ DMTG_Idle

NextDMTG == DMTG_Cycle

SpecDMTG == InitDMTG /\ [][NextDMTG]_vars

----------------------------------------------------------------------------
\* Claims about the tracker

\* what the last cycle read behind the gate
GateOpen(in) == in.matched # None /\ in.spat # None /\ in.matched = in.spat

UnsupportedCodes == {0, 1, -1}

\* C1: the tick-interval history never holds more than 20 entries, and an
\* interval recorded into a full history evicts the oldest entry: the new
\* history is the old one without its head, followed by the new interval.
C1_TickHistoryBounded ==
    [][/\ Len(tick_intervals') <= 20
       /\ (/\ GateOpen(gwe_in')
           /\ has_tick
           /\ gwe_in'.count_down_in # last_cd_tick
           /\ Len(tick_intervals) = 20)
          => tick_intervals' =
                 Append(Tail(tick_intervals),
                        Val(gwe_in'.t0_in) - Val(last_tick_time))]_vars

\* more countdown changes than the history holds, the last cycle recorded one
C1_Witness ==
    /\ cycles - deviations > 20
    /\ Len(tick_intervals) = 20
    /\ path = "updated"
    /\ deviations > 0

\* C2: a cycle whose countdown equals the last observed value leaves the tick
\* history, the last tick value and time and the cached estimate unchanged, and
\* what it emits is the cached estimate.
C2_SameCountdownHolds ==
    [][(/\ GateOpen(gwe_in')
        /\ has_tick
        /\ gwe_in'.count_down_in = last_cd_tick)
       => /\ UNCHANGED <<tick_intervals, last_cd_tick, last_tick_time,
                         g_e_curr, g_s_next, g_e_next>>
          /\ \/ gwe_out' = NoOutput
             \/ /\ gwe_out'.g_e_curr = g_e_curr
                /\ gwe_out'.g_s_next = g_s_next
                /\ gwe_out'.g_e_next = g_e_next]_vars

\* a held cycle at another time and in a red phase emits a green-phase estimate
C2_Witness ==
    /\ path = "held"
    /\ gwe_out # NoOutput
    /\ gwe_in.t0_in # last_tick_time
    /\ Val(gwe_out.state) \in RedStates
    /\ gwe_out.g_e_curr # Some(Absent)

\* C3: after a cycle that recomputed the estimate, with tuc = countdown * 0.1 s
\* and ngd = 500 * the average tick: red gives (absent, tuc, tuc + ngd), yellow
\* (absent, tuc + 50, tuc + 50 + ngd), green (tuc, tuc + 100, tuc + 100 + ngd);
\* green, countdown 200 and average tick 0.1 s give 20, 120, 170 seconds.
C3_EstimateTable ==
    (GateOpen(gwe_in) /\ path = "updated") =>
        LET phase == Val(gwe_in.current_state_in)
            cd == Val(gwe_in.count_down_in)
            tuc == cd * 10
            avg == AvgTickDuration(tick_intervals)
            ngd == [n |-> 500 * avg.n, d |-> avg.d]
            plus(a) == Rat(a * ngd.d + ngd.n, ngd.d)
        IN  /\ phase \in {2, 3} =>
                /\ g_e_curr = Some(-100)
                /\ g_s_next = Some(tuc)
                /\ g_e_next = Some(plus(tuc))
            /\ phase \in {7, 8, 9} =>
                /\ g_e_curr = Some(-100)
                /\ g_s_next = Some(tuc + 5000)
                /\ g_e_next = Some(plus(tuc + 5000))
            /\ phase \in {4, 5, 6} =>
                /\ g_e_curr = Some(tuc)
                /\ g_s_next = Some(tuc + 10000)
                /\ g_e_next = Some(plus(tuc + 10000))
            /\ (phase \in {4, 5, 6} /\ cd = 200 /\ avg = RatInt(10)) =>
                /\ g_e_curr = Some(2000)
                /\ g_s_next = Some(12000)
                /\ g_e_next = Some(RatInt(17000))

\* the example of the claim, on a measured average tick of exactly 0.1 s
C3_Witness ==
    /\ path = "updated"
    /\ gwe_in.current_state_in = Some(6)
    /\ gwe_in.count_down_in = Some(200)
    /\ g_e_next = Some(RatInt(17000))
    /\ Len(tick_intervals) = 3
    /\ SumSeq(tick_intervals) = 30

\* C4: every emitted estimate has g_s_next < g_e_next, and g_e_curr is the
\* absent sentinel or non-negative.
C4_EmittedWindowOrdered ==
    gwe_out # NoOutput =>
        /\ RatLess(RatInt(Val(gwe_out.g_s_next)), Val(gwe_out.g_e_next))
        /\ \/ Val(gwe_out.g_e_curr) = Absent
           \/ Val(gwe_out.g_e_curr) >= 0

\* an estimate emitted when time ran backwards: the raw average is negative
C4_Witness ==
    /\ gwe_out # NoOutput
    /\ path = "updated"
    /\ SumSeq(tick_intervals) < 0
    /\ Val(gwe_out.g_e_curr) >= 0

\* C5 (as claimed): a cycle with a changed countdown and an unavailable, dark
\* or unrecognized phase leaves the cached estimate as it was.
C5_UnsupportedRetainsCache ==
    [][(/\ GateOpen(gwe_in')
        /\ gwe_in'.count_down_in # last_cd_tick
        /\ Val(gwe_in'.current_state_in) \in UnsupportedCodes)
       => UNCHANGED <<g_e_curr, g_s_next, g_e_next>>]_vars

\* C6 (as claimed): a cycle whose phase is unavailable, dark or unrecognized
\* writes nothing to the four outputs.
C6_UnsupportedWritesNothing ==
    (GateOpen(gwe_in) /\ Val(gwe_in.current_state_in) \in UnsupportedCodes)
        => gwe_out = NoOutput

\* C7: a cycle whose IDs differ, or lack one, changes nothing of the tracker
\* and writes nothing; every interval recorded later is the time since the
\* last recorded countdown change, skipped cycles included.
C7_MismatchSkipsCycle ==
    [][/\ ~GateOpen(gwe_in') =>
            /\ UNCHANGED <<has_tick, tick_intervals, last_cd_tick, last_tick_time,
                           g_e_curr, g_s_next, g_e_next>>
            /\ gwe_out' = NoOutput
       /\ (/\ GateOpen(gwe_in')
           /\ has_tick
           /\ gwe_in'.count_down_in # last_cd_tick)
          => tick_intervals'[Len(tick_intervals')] =
                 Val(gwe_in'.t0_in) - Val(last_tick_time)]_vars

\* a skipped cycle of a tracker that holds a history and an estimate
C7_Witness ==
    /\ path = "skipped"
    /\ gwe_in.matched # None
    /\ gwe_in.spat # None
    /\ has_tick
    /\ Len(tick_intervals) = 2
    /\ g_e_next # None

----------------------------------------------------------------------------
\* Claims about phase-name parsing

\* the table of the ten phase names, in the order of their codes 0..9
PhaseNames ==
    <<"unavailable", "dark", "stop-Then-Proceed", "stop-And-Remain",
      "pre-Movement", "permissive-Movement-Allowed", "protected-Movement-Allowed",
      "permissive-clearance", "protected-clearance", "caution-Conflicting-Traffic">>

\* C8: a table name, whatever blanks surround it, parses to its code 0..9;
\* every other string parses to -1, which is none of 0..9, and the estimate
\* derivation gives no estimate for it (it is not red, yellow or green).
C8_NameParsing ==
    name_run.code # None =>
        LET core == name_run.core
            code == Val(name_run.code)
            inTable == Len(core) = 1 /\ \E k \in 1..10 : PhaseNames[k] = core[1]
        IN  /\ inTable => (code \in 0..9 /\ PhaseNames[code + 1] = core[1])
            /\ ~inTable => code = -1
            /\ code \in 0..9 <=> inTable
            /\ (~inTable /\ name_run.est # None) => Val(name_run.est) = NoEstimate

\* a string outside the table, with blanks around it, parsed and taken through
\* the estimate derivation
C8_Witness ==
    /\ name_run.lead > 0
    /\ name_run.trail > 0
    /\ name_run.core = <<"Dark">>
    /\ name_run.code = Some(-1)
    /\ name_run.est = Some(NoEstimate)

----------------------------------------------------------------------------
\* Claims about the classifier

\* C9: identify_scenario returns Scenario 1 iff some interval [s,e) has
\* s <= t_cr < e; otherwise Scenario 2 iff some interval has
\* max(t_e,s) < min(t_cr,e); otherwise Scenario 3 iff no interval has
\* max(t_cr,s) < min(t_l,e); otherwise Scenario 4; the label is "Scenario k"
\* with the numeric code k in 1..4.
C9_ScenarioPriority ==
    scen_run.result # None =>
        LET G == scen_run.gamma
            tcr == scen_run.t_cr.v
            te == scen_run.t_e.v
            tl == scen_run.t_l.v
            S(k) == G[k][1].v
            E(k) == G[k][2].v
            Larger(a, b) == IF a >= b THEN a ELSE b
            Smaller(a, b) == IF a <= b THEN a ELSE b
            P1 == \E k \in DOMAIN G : S(k) <= tcr /\ tcr < E(k)
            P2 == \E k \in DOMAIN G : Larger(te, S(k)) < Smaller(tcr, E(k))
            P3 == ~ \E k \in DOMAIN G : Larger(tcr, S(k)) < Smaller(tl, E(k))
            n == IF P1 THEN 1 ELSE IF P2 THEN 2 ELSE IF P3 THEN 3 ELSE 4
            label == Val(scen_run.result)[1]
            code == Val(scen_run.result)[2]
        IN  /\ code = n
            /\ code \in 1..4
            /\ label = <<"Scenario 1", "Scenario 2", "Scenario 3", "Scenario 4">>[code]

\* Scenario 4 returned for a gamma of two intervals: cruising arrives in the
\* red between them, the second interval is reachable before t_l
C9_Witness ==
    /\ scen_run.result = Some(<<"Scenario 4", 4>>)
    /\ Len(scen_run.gamma) = 2
    /\ scen_run.gamma[1][2] = scen_run.t_cr
    /\ scen_run.t_e.v < scen_run.t_cr.v
    /\ scen_run.t_cr.v < scen_run.gamma[2][1].v
    /\ scen_run.gamma[2][1].v < scen_run.t_l.v

----------------------------------------------------------------------------
\* Claims about the classifier's preconditions

\* the inputs of the last classifier cycle lack a value
DMSI_Missing == dmsi_in # None /\ \E field \in DOMAIN Val(dmsi_in) : Val(dmsi_in)[field] = None

\* the inputs of the last classifier cycle are all there
DMSI_Complete == dmsi_in # None /\ \A field \in DOMAIN Val(dmsi_in) : Val(dmsi_in)[field] # None

\* v_c_ms of the last classifier cycle
DMSI_Speed == KmhToMs(Val(Val(dmsi_in).v_c_in))

\* C12 (as claimed): a cycle in which one of the six inputs is missing writes
\* nothing to scenario, scenario_n and d_0_out.
C12_MissingWritesNothing ==
    DMSI_Missing =>
        /\ dmsi_out.scenario = None
        /\ dmsi_out.scenario_n = None
        /\ dmsi_out.d_0_out = None

\* C13 (as claimed): a numeric scenario code is written only when
\* 0 < v_c_ms <= v_limit_ms; for every other speed, 0 included, the cycle
\* writes "Invalid Speed", relays d_0 on d_0_out and writes no code.
C13_SpeedPrecondition ==
    DMSI_Complete =>
        /\ dmsi_out.scenario_n # None =>
               (0 < DMSI_Speed /\ DMSI_Speed <= KmhToMs(v_limit))
        /\ ~(0 < DMSI_Speed /\ DMSI_Speed <= KmhToMs(v_limit)) =>
               /\ dmsi_out.scenario = Some("Invalid Speed")
               /\ dmsi_out.d_0_out = Val(dmsi_in).d_0
               /\ dmsi_out.scenario_n = None

\* C14 (as claimed): no classifier cycle divides by zero; a speed of exactly
\* v_limit_ms, v_coast_ms or 0 is rejected as "Invalid Speed" instead.
C14_BoundaryRejected ==
    /\ dmsi_out.raised # Some("ZeroDivisionError")
    /\ (DMSI_Complete /\ DMSI_Speed \in {0, KmhToMs(v_coast), KmhToMs(v_limit)}) =>
           /\ dmsi_out.raised = None
           /\ dmsi_out.scenario = Some("Invalid Speed")

----------------------------------------------------------------------------
\* Claims about gamma and the planner

\* gamma as the claim states it, for the inputs i of a cycle
ClaimedGamma(i) ==
    IF Val(i.g_e_curr) = -1000
    THEN <<  <<Fin(Val(i.g_s_next)), Fin(Val(i.g_e_next))>>  >>
    ELSE <<  <<Fin(RoundToCs(Val(i.t_0)) * 10), Fin(Val(i.g_e_curr))>>,
             <<Fin(Val(i.g_s_next)), Fin(Val(i.g_e_next))>>  >>

\* C11: whenever the classifier or the planner builds gamma it is the single
\* interval (g_s_next, g_e_next) if g_e_curr is -1 and else the two intervals
\* (t0, g_e_curr), (g_s_next, g_e_next) in this order, t0 being the time of the
\* cycle; built in the same cycle on the same inputs the two are equal.
C11_GammaConstruction ==
    /\ dmsi_gamma # None => Val(dmsi_gamma) = ClaimedGamma(Val(dmsi_in))
    /\ dmtg_run.gamma # None => Val(dmtg_run.gamma) = ClaimedGamma(Val(dmtg_in))
    /\ (dmsi_gamma # None /\ dmtg_run.gamma # None) => dmsi_gamma = dmtg_run.gamma

\* C11 witness: both components built a two-interval gamma in a cycle at 10.05 s.
C11_Witness ==
    /\ dmsi_gamma # None
    /\ dmtg_run.gamma # None
    /\ Len(Val(dmtg_run.gamma)) = 2
    /\ Val(dmtg_run.gamma)[1] = <<Fin(10050), Fin(5000)>>
    /\ Val(dmsi_gamma)[1] = <<Fin(10050), Fin(5000)>>

\* the speed the lookup of the claims reads from a profile at time t
ClaimedPosition(profile, start, end, t) ==
    IF t <= start THEN 0
    ELSE IF t >= end THEN Len(profile) - 1
    ELSE IF (t - start) \div dt < Len(profile) - 1 THEN (t - start) \div dt
    ELSE Len(profile) - 1

\* the last planner cycle had its time and passed the validation
DMTG_Validated ==
    /\ dmtg_in # None
    /\ \A field \in {"scenario", "d_0", "t_0", "g_e_curr", "g_s_next", "g_e_next"} :
           Val(dmtg_in)[field] # None

C16_LookupInRange ==
    (precomputed_velocity_profile # None /\ DMTG_Validated) =>
        LET profile == Val(precomputed_velocity_profile)
            position == ClaimedPosition(profile, Val(profile_start_time),
                            Val(profile_end_time),
                            RoundToCs(Val(Val(dmtg_in).t_0)) * 10)
        IN  /\ position \in 0..(Len(profile) - 1)
            /\ dmtg_out.v_t_kmh = Some(profile[position + 1][2])

\* C17 (as claimed): the samples of a cached profile begin at the cached
\* start, are dt apart, and reach to within dt of the cached end.
C17_ProfileSpansInterval ==
    (precomputed_velocity_profile # None /\ Val(precomputed_velocity_profile) # <<>>) =>
        LET profile == Val(precomputed_velocity_profile)
        IN  /\ profile[1][1] = Val(profile_start_time)
            /\ \A k \in 1..(Len(profile) - 1) : profile[k + 1][1] - profile[k][1] = dt
            /\ Abs(Val(profile_end_time) - profile[Len(profile)][1]) <= dt

\* C18 (as claimed): a profile computed for Scenario 1 at t0 holds the speed
\* min(v_c, 56.33) in every sample, with start = t0 and end = t0 + 30 s.
C18_Scenario1Horizon ==
    (/\ dmtg_run.computed
     /\ precomputed_velocity_profile # None
     /\ Val(dmtg_in).scenario = Some("Scenario 1")) =>
        LET profile == Val(precomputed_velocity_profile)
            t0 == RoundToCs(Val(Val(dmtg_in).t_0)) * 10
            v_c == Val(Val(dmtg_in).v_c)
        IN  /\ \A k \in 1..Len(profile) :
                   profile[k][2] = IF v_c < 5633 THEN v_c ELSE 5633
            /\ profile_start_time = Some(t0)
            /\ profile_end_time = Some(t0 + 30000)

\* the overlap start of the claim for an interval, and whether it qualifies
ClaimedStart(lo, interval) == IF interval[1].v > lo.v THEN interval[1] ELSE lo

ClaimedQualifies(lo, hi, interval) ==
    /\ ClaimedStart(lo, interval).v < hi.v
    /\ ClaimedStart(lo, interval).v < interval[2].v

\* t_arr as the claim states it: None, or the least qualifying overlap start
ClaimedArrival(found, lo, hi, gamma) ==
    LET qualifying == {k \in 1..Len(gamma) : ClaimedQualifies(lo, hi, gamma[k])}
    IN  IF qualifying = {} THEN found = None
        ELSE /\ found # None
             /\ \E k \in qualifying : Val(found) = ClaimedStart(lo, gamma[k])
             /\ \A k \in qualifying : Val(found).v <= ClaimedStart(lo, gamma[k]).v

\* C19: the Scenario 2 search returns the least max(t_e, s) over the intervals
\* [s, e) with max(t_e, s) < min(t_cr, e), the Scenario 4 search the least
\* max(t_cr, s) over those with max(t_cr, s) < min(t_l, e), and each returns
\* None where no interval qualifies.
C19_ArrivalSearch ==
    arr_run # None =>
        /\ ClaimedArrival(Val(arr_run).scen2, scen_run.t_e, scen_run.t_cr, scen_run.gamma)
        /\ ClaimedArrival(Val(arr_run).scen4, scen_run.t_cr, scen_run.t_l, scen_run.gamma)

\* C19 witness: two intervals qualify for Scenario 2 and the second one gives
\* the earlier arrival, while none qualifies for Scenario 4.
C19_Witness ==
    /\ arr_run # None
    /\ Len(scen_run.gamma) = 2
    /\ ClaimedQualifies(scen_run.t_e, scen_run.t_cr, scen_run.gamma[1])
    /\ ClaimedQualifies(scen_run.t_e, scen_run.t_cr, scen_run.gamma[2])
    /\ Val(arr_run).scen2 = Some(scen_run.gamma[2][1])
    /\ scen_run.gamma[2][1].v < scen_run.gamma[1][1].v
    /\ Val(arr_run).scen4 = None

\* the failures of compute the claim names, for the inputs i of a cycle that
\* ran compute with the locals run
ClaimedFailure(i, run) ==
    \/ /\ i.scenario \in {Some("Scenario 2"), Some("Scenario 4")}
       /\ run.gamma # None
       /\ run.t_arr = None
    \/ /\ i.scenario = Some("Scenario 3")
       /\ KmhToMs(Val(i.v_c)) <= KmhToMs(v_coast)

\* C20: in an Empty planner a cycle with all inputs runs compute; where compute
\* fails (Scenario 2 or 4 without an arrival time, Scenario 3 at or below the
\* coasting speed) or yields no profile for another reason, the planner stays
\* Empty, profile, start and end stay unset, and no speed is written.
C20_FailedComputeStaysEmpty ==
    [][(/\ precomputed_velocity_profile = None
        /\ \A field \in DOMAIN Val(dmtg_in') : Val(dmtg_in')[field] # None) =>
           /\ dmtg_run'.computed
           /\ ClaimedFailure(Val(dmtg_in'), dmtg_run') =>
                  precomputed_velocity_profile' = None
           /\ precomputed_velocity_profile' = None =>
                  /\ profile_start_time' = None
                  /\ profile_end_time' = None
                  /\ dmtg_out'.v_t_kmh = None
                  /\ dmtg_out'.v_t_mph = None
      ]_vars

\* C20 witness: in a cycle at 10.05 s the Scenario 4 search found no arrival;
\* the planner is Empty and has written nothing.
C20_Witness ==
    /\ dmtg_run.computed
    /\ dmtg_run.gamma # None
    /\ dmtg_run.t_arr = None
    /\ dmtg_in # None
    /\ Val(dmtg_in).scenario = Some("Scenario 4")
    /\ Val(dmtg_in).t_0 = Some(10050000)
    /\ precomputed_velocity_profile = None
    /\ dmtg_out = DMTG_Raised("TypeError")

\* the four labels compute_velocity_profile has a branch for
FourLabels == {"Scenario 1", "Scenario 2", "Scenario 3", "Scenario 4"}

\* C21 (as claimed): a cycle whose compute ends without a profile (no
\* arrival time in Scenario 2 or 4, Scenario 3 at or below the coasting speed)
\* or is given a label that is none of the four ends without an exception.
C21_NoUnstructuredException ==
    (/\ dmtg_run.computed
     /\ DMTG_Validated
     /\ Val(dmtg_in).v_c # None
     /\ \/ ClaimedFailure(Val(dmtg_in), dmtg_run)
        \/ Val(Val(dmtg_in).scenario) \notin FourLabels) =>
        dmtg_out.raised = None

\* C22 (as claimed): a cycle in which the write of the profile file failed
\* (the only origin of OSError in a cycle) still caches the profile and
\* writes both speeds.
C22_SinkFailureAbsorbed ==
    dmtg_out.raised = Some("OSError") =>
        /\ precomputed_velocity_profile # None
        /\ dmtg_out.v_t_kmh # None
        /\ dmtg_out.v_t_mph # None

\* C23 (as claimed): a cycle with any of its seven inputs missing does not run
\* compute, leaves profile, start and end as they are, writes no speed and
\* ends normally.
C23_MissingInputNoOp ==
    [][(\E field \in DOMAIN Val(dmtg_in') : Val(dmtg_in')[field] = None) =>
           /\ ~dmtg_run'.computed
           /\ UNCHANGED <<precomputed_velocity_profile, profile_start_time,
                          profile_end_time>>
           /\ dmtg_out' = DMTG_NoOutput
      ]_vars

\* C24 (as claimed): no sample of a cached profile and no speed written
\* exceeds v_limit.
C24_SpeedCap ==
    /\ precomputed_velocity_profile # None =>
           \A k \in 1..Len(Val(precomputed_velocity_profile)) :
               Val(precomputed_velocity_profile)[k][2] <= v_limit
    /\ dmtg_out.v_t_kmh # None => Val(dmtg_out.v_t_kmh) <= v_limit

\* the denominators the claim names, for the inputs i of a cycle that ran
\* compute with the locals run: v_c_ms, v_limit_ms - v_c_ms, v_c_ms - v_coast_ms,
\* t_arr, and v_d in the rate n of Scenarios 2 and 4
ClaimedZeroDenominator(i, run) ==
    \/ KmhToMs(Val(i.v_c)) \in {0, KmhToMs(v_limit), KmhToMs(v_coast)}
    \/ /\ Val(i.scenario) \in {"Scenario 2", "Scenario 4"}
       /\ run.t_arr # None
       /\ \/ Val(run.t_arr).v = 0
          \/ (Val(i.d_0) * 1000) \div Val(run.t_arr).v - KmhToMs(Val(i.v_c)) = 0

\* C25 (as claimed): a compute that meets a zero denominator ends in a typed
\* failure: the cycle raises nothing, caches no profile and writes no speed.
C25_NumericGuards ==
    (/\ dmtg_run.computed
     /\ DMTG_Validated
     /\ Val(dmtg_in).v_c # None
     /\ ClaimedZeroDenominator(Val(dmtg_in), dmtg_run)) =>
        /\ dmtg_out = DMTG_NoOutput
        /\ precomputed_velocity_profile = None

SupportedCodes == RedStates \cup YellowStates \cup GreenStates

\* C26 (as claimed): the first cycle with matching IDs and a red, yellow or
\* green phase after a cycle with an unsupported phase writes an estimate,
\* whatever its countdown.
C26_RecoversAfterUnsupported ==
    [][(/\ GateOpen(gwe_in)
        /\ Val(gwe_in.current_state_in) \in UnsupportedCodes
        /\ GateOpen(gwe_in')
        /\ Val(gwe_in'.current_state_in) \in SupportedCodes)
       => gwe_out' # NoOutput]_vars

\* C27: on the same thresholds and gamma, where identify_scenario returns
\* Scenario 2 the Scenario 2 search finds an arrival time, and where it returns
\* Scenario 4 the Scenario 4 search finds one.
C27_FeasibilityAgreement ==
    (scen_run.result # None /\ arr_run # None) =>
        /\ Val(scen_run.result)[1] = "Scenario 2" => Val(arr_run).scen2 # None
        /\ Val(scen_run.result)[1] = "Scenario 4" => Val(arr_run).scen4 # None

\* C27 witness: Scenario 4 was returned, the Scenario 4 search found an
\* arrival time and the Scenario 2 search found none.
C27_Witness ==
    /\ scen_run.result = Some(<<"Scenario 4", 4>>)
    /\ arr_run # None
    /\ Val(arr_run).scen4 # None
    /\ Val(arr_run).scen2 = None

\* C28: where identify_scenario returns Scenario 4 the arrival time is the
\* start of a gamma interval and lies after t_cr; where it returns Scenario 2
\* the arrival time lies before t_cr and every qualifying interval ends at or
\* before t_cr.
C28_SpeedChangeDirection ==
    (scen_run.result # None /\ arr_run # None) =>
        /\ Val(scen_run.result)[1] = "Scenario 4" =>
               /\ Val(arr_run).scen4 # None
               /\ \E k \in 1..Len(scen_run.gamma) :
                      /\ Val(Val(arr_run).scen4) = scen_run.gamma[k][1]
                      /\ scen_run.gamma[k][1].v > scen_run.t_cr.v
        /\ Val(scen_run.result)[1] = "Scenario 2" =>
               /\ Val(arr_run).scen2 # None
               /\ Val(Val(arr_run).scen2).v < scen_run.t_cr.v
               /\ \A k \in 1..Len(scen_run.gamma) :
                      ClaimedQualifies(scen_run.t_e, scen_run.t_cr, scen_run.gamma[k])
                          => scen_run.gamma[k][2].v <= scen_run.t_cr.v

\* C28 witness: Scenario 2 was returned for a green that ends before t_cr, and
\* the arrival time is t_e, inside that green.
C28_Witness ==
    /\ scen_run.result = Some(<<"Scenario 2", 2>>)
    /\ arr_run # None
    /\ Val(arr_run).scen2 = Some(scen_run.t_e)
    /\ Len(scen_run.gamma) = 1
    /\ scen_run.gamma[1][1].v < scen_run.t_e.v
    /\ scen_run.gamma[1][2].v < scen_run.t_cr.v

\* C29 (as claimed): a cached profile holds at least one sample.
C29_ReadyProfileNonEmpty ==
    precomputed_velocity_profile # None => Len(Val(precomputed_velocity_profile)) >= 1

\* C30 (as claimed): a cycle that writes outputs writes a g_e_curr other than
\* the sentinel exactly when the state code it writes is green.
C30_OutputCoherent ==
    gwe_out # NoOutput =>
        (Val(gwe_out.g_e_curr) # Absent <=> Val(gwe_out.state) \in GreenStates)

====
